---- MODULE Spec2Model ----
(***************************************************************************)
(* github-distributed-owners: the declaration parser (owners_file.rs,      *)
(* owners_set.rs), the tree builder (owners_tree.rs), the resolver and the *)
(* serializer (codeowners.rs) and the run that chains them (pipeline.rs),  *)
(* each as a state machine of its own over one set of variables.           *)
(*                                                                         *)
(* Paths are sequences of components counted from the filesystem root;    *)
(* a line of a declaration file is the sequence of its whitespace-         *)
(* separated tokens after clean_line (comment stripped, trimmed, blank     *)
(* lines dropped).                                                         *)
(***************************************************************************)
EXTENDS Integers, Sequences, FiniteSets, TLC

VARIABLES
    \* ---- declaration parser (OwnersFileConfig::from_file / parse_text)
    top,                \* path handed to from_file
    alphabet,           \* the lines the files of this run are written with
    text,               \* file -> [lines, closed]: the lines of each file read so far
    stack,              \* the active parse_text calls, outermost first
    seen_owners_files,  \* HashMap<PathBuf, Option<PathBuf>> threaded through parse_text
    config,             \* the OwnersFileConfig accumulator
    status,             \* "idle" | "running" | "ok" | "err"
    error,              \* which error ended the parse ("" while there is none)
    error_chain,        \* the include chain the cycle error prints, <<>> otherwise
    \* ---- tree builder (TreeNode::load_from_files)
    dir_info,           \* what the walk has seen of the directories below the root
    tstack,             \* the active load_children_from_files calls (the root's loop first)
    tchildren,          \* node path -> the paths of its children, in push order
    tconfig,            \* node path -> "default" | "parsed" (its owners_config)
    tvisited,           \* directories whose OWNERS file and entries were looked at
    tstatus,            \* "idle" | "start" | "running" | "ok" | "err"
    \* ---- resolver (generate_codeowners)
    owners_tree,        \* node path (relative to the root) -> [owners_config, children]
    implicit_inherit,   \* the global default inheritance
    codeowners,         \* HashMap<String, HashSet<String>>: key -> owners
    rstatus,            \* "idle" | "input" | "done"
    \* ---- serializer and pipeline (to_codeowners_string, generate_codeowners_from_files)
    codeowners_text,    \* None, or Some(the text to_codeowners_string returned)
    poutput,            \* "none" | "printed" | "written": what the run has put out
    pstatus             \* "idle" | "running" | "ok" | "err": generate_codeowners_from_files

parse_vars == <<top, alphabet, text, stack, seen_owners_files, config, status, error, error_chain>>
tree_vars == <<dir_info, tstack, tchildren, tconfig, tvisited, tstatus>>
resolve_vars == <<owners_tree, implicit_inherit, codeowners, rstatus>>
pipeline_vars == <<codeowners_text, poutput, pstatus>>
vars == <<parse_vars, tree_vars, resolve_vars, pipeline_vars>>

-----------------------------------------------------------------------------
(* Bounds *)

\* Lines of declaration text read during one parse, over all files.
MaxLines == 5

\* Directories below the root of the walked tree.
MaxDirs == 3

\* Pattern overrides in a resolved tree, over all nodes.
MaxOverrides == 2

\* Pattern overrides in a tree whose inheritance chains are what is looked at.
MaxInheritOverrides == 1

-----------------------------------------------------------------------------
(* Options and maps *)

None == <<>>
Some(x) == <<x>>
IsSome(o) == o # <<>>
Unwrap(o) == o[1]

EmptyMap == <<>>
MapInsert(m, k, v) == [x \in (DOMAIN m) \cup {k} |-> IF x = k THEN v ELSE m[x]]
\* Variant: the entry stays.
MapKeep(m, k) == m

MapRemove(m, k) == [x \in (DOMAIN m) \ {k} |-> m[x]]

-----------------------------------------------------------------------------
(* The filesystem the parser reads *)

RepoBase == <<"r">>

Dirs == { <<>>, <<"r">>, <<"r", "d">> }

\* Regular files. <<"OWNERS">> lies outside the repository base.
AllFiles == { <<"r", "OWNERS">>, <<"r", "d", "OWNERS">>, <<"r", "d", "X">>, <<"OWNERS">> }

\* The files from_file is called on: <directory>/OWNERS of a tree directory.
TopFiles == { <<"r", "OWNERS">>, <<"r", "d", "OWNERS">> }

\* The include path tokens of the model and what std::path::Path makes of each.
IncludeTokens == { "/d/X", "OWNERS", "X", "../OWNERS" }

is_absolute(tok) == tok \in { "/d/X" }

\* Path components, the root separator of an absolute path stripped.
components(tok) ==
    CASE tok = "/d/X" -> <<"d", "X">>
      [] tok = "OWNERS" -> <<"OWNERS">>
      [] tok = "X" -> <<"X">>
      [] tok = "../OWNERS" -> <<"..", "OWNERS">>

parent(path) == SubSeq(path, 1, Len(path) - 1)

starts_with(path, base) ==
    /\ Len(path) >= Len(base)
    /\ SubSeq(path, 1, Len(base)) = base

\* fs::canonicalize: walk the components from the root; every prefix must exist,
\* ".." steps to the parent directory. None when the path does not exist.
RECURSIVE walk(_, _)
walk(cur, comps) ==
    IF comps = <<>> THEN Some(cur)
    ELSE IF cur \notin Dirs THEN None
    ELSE IF Head(comps) = ".." THEN walk(parent(cur), Tail(comps))
    ELSE LET nxt == Append(cur, Head(comps))
         IN  IF nxt \in Dirs \cup AllFiles THEN walk(nxt, Tail(comps)) ELSE None

canonicalize(path) == walk(<<>>, path)

-----------------------------------------------------------------------------
(* Lines *)

Owners == { "a", "b" }
Patterns == { "p" }

OwnerLines == { <<o>> : o \in Owners }
PatternLines == { <<"[p]">> }
SetLines == { <<"set", "inherit", "=", "true">> }
IncludeLines == { <<"include", t>> : t \in IncludeTokens }
\* "x y": neither include, set nor pattern header, and it holds whitespace.
BadLines == { <<"x", "y">>, <<"include">> }

Lines == OwnerLines \cup PatternLines \cup SetLines \cup IncludeLines \cup BadLines

\* The set lines maybe_process_set tells apart: both values, a value and a
\* variable it does not know, and a line its expression does not match.
DirectiveLines ==
    { <<"set", "inherit", "=", "true">>, <<"set", "inherit", "=", "false">>,
      <<"set", "inherit", "=", "maybe">>, <<"set", "other", "=", "true">>,
      <<"set", "inherit">> }

\* Files that send the walk through includes: every include line, an owner, a
\* header and the lines that fail.
WalkLines == IncludeLines \cup { <<"a">>, <<"[p]">> } \cup BadLines

\* Files made of set lines, owner lines, a header and an include.
SetFileLines == DirectiveLines \cup { <<"a">>, <<"[p]">>, <<"include", "/d/X">> }

\* maybe_get_file_pattern: Some(pattern) for a header line.
maybe_get_file_pattern(line) ==
    IF Len(line) = 1 /\ line[1] = "[p]" THEN Some("p") ELSE None

\* maybe_get_include: [err, path]; path is Some(token) for `include <path>`.
maybe_get_include(line) ==
    IF line[1] = "include"
    THEN IF Len(line) = 2
         THEN [err |-> FALSE, path |-> Some(line[2])]
         ELSE [err |-> TRUE, path |-> None]
    ELSE [err |-> FALSE, path |-> None]

-----------------------------------------------------------------------------
(* owners_set.rs *)

OwnersSetDefault == [inherit |-> "unset", owners |-> {}]

\* Variant: every value but true is read as false.
maybe_process_set_any_value(set, line) ==
    IF ~(line[1] = "set" /\ Len(line) >= 2)
    THEN [is_set |-> FALSE, err |-> "", set |-> set]
    ELSE IF Len(line) # 4 \/ line[3] # "="
    THEN [is_set |-> FALSE, err |-> "set_format", set |-> set]
    ELSE IF line[2] # "inherit"
    THEN [is_set |-> FALSE, err |-> "set_variable", set |-> set]
    ELSE [is_set |-> TRUE, err |-> "",
          set |-> [set EXCEPT !.inherit = IF line[4] = "true" THEN "true" ELSE "false"]]

\* OwnersSet::maybe_process_set: [is_set, err, set]
maybe_process_set(set, line) ==
    IF ~(line[1] = "set" /\ Len(line) >= 2)
    THEN [is_set |-> FALSE, err |-> "", set |-> set]
    ELSE IF Len(line) # 4 \/ line[3] # "="
    THEN [is_set |-> FALSE, err |-> "set_format", set |-> set]
    ELSE IF line[2] # "inherit"
    THEN [is_set |-> FALSE, err |-> "set_variable", set |-> set]
    ELSE IF line[4] \notin {"true", "false"}
    THEN [is_set |-> FALSE, err |-> "set_value", set |-> set]
    ELSE [is_set |-> TRUE, err |-> "", set |-> [set EXCEPT !.inherit = line[4]]]

-----------------------------------------------------------------------------
(* owners_file.rs *)

OwnersFileConfigDefault == [all_files |-> OwnersSetDefault, pattern_overrides |-> EmptyMap]

\* Variant: a relative include is resolved against the top-level file's directory.
resolve_include_path_from_top(repo_base, current_path, tok) ==
    LET current_dir == parent(top)
        path == IF is_absolute(tok)
                THEN repo_base \o components(tok)
                ELSE current_dir \o components(tok)
        canonicalized_path == canonicalize(path)
    IN  IF ~IsSome(canonicalized_path)
        THEN [err |-> "canonicalize", path |-> None]
        ELSE IF ~starts_with(Unwrap(canonicalized_path), repo_base)
        THEN [err |-> "outside_base", path |-> None]
        ELSE [err |-> "", path |-> canonicalized_path]

\* Variant: the canonical path is not held against the repository base.
resolve_include_path_unconfined(repo_base, current_path, tok) ==
    LET current_dir == parent(current_path)
        path == IF is_absolute(tok)
                THEN repo_base \o components(tok)
                ELSE current_dir \o components(tok)
        canonicalized_path == canonicalize(path)
    IN  IF ~IsSome(canonicalized_path)
        THEN [err |-> "canonicalize", path |-> None]
        ELSE [err |-> "", path |-> canonicalized_path]

\* resolve_include_path: [err, path]
resolve_include_path(repo_base, current_path, tok) ==
    LET current_dir == parent(current_path)
        path == IF is_absolute(tok)
                THEN repo_base \o components(tok)
                ELSE current_dir \o components(tok)
        canonicalized_path == canonicalize(path)
    IN  IF ~IsSome(canonicalized_path)
        THEN [err |-> "canonicalize", path |-> None]
        ELSE IF ~starts_with(Unwrap(canonicalized_path), repo_base)
        THEN [err |-> "outside_base", path |-> None]
        ELSE [err |-> "", path |-> canonicalized_path]

\* check_no_circular_include lines 255-264: from the path up through the
\* includers recorded in seen, while there is one.
RECURSIVE include_chain(_, _)
include_chain(current, seen) ==
    IF current \in DOMAIN seen /\ IsSome(seen[current])
    THEN <<current>> \o include_chain(Unwrap(seen[current]), seen)
    ELSE <<current>>

reverse(seq) == [k \in 1..Len(seq) |-> seq[Len(seq) + 1 - k]]

\* check_no_circular_include lines 255-272: the chain the error message joins.
cycle_chain(path, seen) == reverse(include_chain(path, seen))

\* Variant: no include is held against the chain.
check_no_circular_include_never(path, seen) == TRUE

\* Variant: only the top-level file is looked for in the chain.
check_no_circular_include_top_only(path, seen) ==
    ~(path \in DOMAIN seen /\ seen[path] = None)

\* check_no_circular_include: TRUE when the include may be expanded.
check_no_circular_include(path, seen) == path \notin DOMAIN seen

\* Variant: includes are single-level.
include_refused_when_nested(active_pattern_key, seen) ==
    IsSome(active_pattern_key) \/ Cardinality(DOMAIN seen) > 1

\* Variant: an include line is taken wherever it stands.
include_refused_never(active_pattern_key, seen) == FALSE

\* parse_text line 72: an include line is refused inside a pattern section.
include_refused(active_pattern_key, seen) == IsSome(active_pattern_key)

\* Variant: set lines are taken in included files as well.
set_refused_never(seen) == FALSE

\* parse_text line 124: a set line is refused while an include is being expanded.
set_refused(seen) == Cardinality(DOMAIN seen) > 1

\* Variant: the pattern section open at the end of an included file stays open.
key_after_include_leaks(caller_key, included_key) == included_key

\* parse_text line 52: active_pattern_key is local to a call; the caller goes on
\* with its own after the included file.
key_after_include(caller_key, included_key) == caller_key

\* parse_text lines 110-116: the set the line acts on; an override is created on use.
with_current_set(cfg, active_pattern_key) ==
    IF IsSome(active_pattern_key) /\ Unwrap(active_pattern_key) \notin DOMAIN cfg.pattern_overrides
    THEN [cfg EXCEPT !.pattern_overrides =
              MapInsert(cfg.pattern_overrides, Unwrap(active_pattern_key), OwnersSetDefault)]
    ELSE cfg

current_set(cfg, active_pattern_key) ==
    IF IsSome(active_pattern_key)
    THEN cfg.pattern_overrides[Unwrap(active_pattern_key)]
    ELSE cfg.all_files

put_current_set(cfg, active_pattern_key, set) ==
    IF IsSome(active_pattern_key)
    THEN [cfg EXCEPT !.pattern_overrides[Unwrap(active_pattern_key)] = set]
    ELSE [cfg EXCEPT !.all_files = set]

\* A frame of parse_text: the file, the index of the line it is at, its local
\* active_pattern_key.
Frame(path) == [path |-> path, i |-> 1, active_pattern_key |-> None]

TopFrame == stack[Len(stack)]

RECURSIVE SumLen(_, _)
SumLen(t, fs) ==
    IF fs = {} THEN 0
    ELSE LET f == CHOOSE x \in fs : TRUE
         IN  Len(t[f].lines) + SumLen(t, fs \ {f})

LinesRead == SumLen(text, AllFiles)

\* The line at index i of file f: the one read before, or a line of a file whose
\* text is fixed now (read_to_string returns the same text each time it is read).
LineChoices(f, i) ==
    IF i <= Len(text[f].lines) THEN { text[f].lines[i] }
    ELSE IF text[f].closed \/ LinesRead >= MaxLines THEN {}
    ELSE alphabet

WithLine(f, i, line) ==
    IF i <= Len(text[f].lines) THEN text
    ELSE [text EXCEPT ![f].lines = Append(@, line)]

Fail(kind) ==
    /\ status' = "err"
    /\ error' = kind
    /\ error_chain' = <<>>

\* The error check_no_circular_include returns, its chain in the message.
FailCycle(chain) ==
    /\ status' = "err"
    /\ error' = "cycle"
    /\ error_chain' = chain

Advance == stack' = [stack EXCEPT ![Len(stack)].i = @ + 1]

ParseIdle ==
    /\ top = <<>>
    /\ alphabet = {}
    /\ text = <<>>
    /\ stack = <<>>
    /\ seen_owners_files = EmptyMap
    /\ config = OwnersFileConfigDefault
    /\ status = "idle"
    /\ error = ""
    /\ error_chain = <<>>

ParseStartWith(lines) ==
    /\ top \in TopFiles
    /\ alphabet = lines
    /\ text = [f \in AllFiles |-> [lines |-> <<>>, closed |-> FALSE]]
    /\ stack = <<Frame(top)>>
    \* parse_text lines 58-60
    /\ seen_owners_files = MapInsert(EmptyMap, top, None)
    /\ config = OwnersFileConfigDefault
    /\ status = "running"
    /\ error = ""
    /\ error_chain = <<>>

ParseStart == ParseStartWith(Lines)

\* parse_text lines 69-106: an include line.
IncludeLine ==
    /\ status = "running"
    /\ LET fr == TopFrame IN
       \E line \in LineChoices(fr.path, fr.i) :
          LET inc == maybe_get_include(line) IN
          /\ inc.err \/ IsSome(inc.path)
          /\ text' = WithLine(fr.path, fr.i, line)
          /\ UNCHANGED <<top, alphabet, config, tree_vars, resolve_vars, pipeline_vars>>
          /\ IF inc.err
             THEN Fail("include_format") /\ UNCHANGED <<stack, seen_owners_files>>
             ELSE IF include_refused(fr.active_pattern_key, seen_owners_files)
             THEN Fail("include_in_pattern") /\ UNCHANGED <<stack, seen_owners_files>>
             ELSE LET res == resolve_include_path(RepoBase, fr.path, Unwrap(inc.path)) IN
                  IF res.err # ""
                  THEN Fail(res.err) /\ UNCHANGED <<stack, seen_owners_files>>
                  ELSE IF ~check_no_circular_include(Unwrap(res.path), seen_owners_files)
                  THEN /\ FailCycle(cycle_chain(Unwrap(res.path), seen_owners_files))
                       /\ UNCHANGED <<stack, seen_owners_files>>
                  ELSE /\ seen_owners_files' =
                            MapInsert(seen_owners_files, Unwrap(res.path), Some(fr.path))
                       /\ stack' = Append(stack, Frame(Unwrap(res.path)))
                       /\ UNCHANGED <<status, error, error_chain>>

\* parse_text lines 110-148: a set line, a pattern header or an owner line.
PlainLine ==
    /\ status = "running"
    /\ LET fr == TopFrame IN
       \E line \in LineChoices(fr.path, fr.i) :
          LET inc == maybe_get_include(line)
              cfg == with_current_set(config, fr.active_pattern_key)
              res == maybe_process_set(current_set(cfg, fr.active_pattern_key), line)
              cfg_set == put_current_set(cfg, fr.active_pattern_key, res.set)
              pat == maybe_get_file_pattern(line)
          IN
          /\ ~inc.err /\ ~IsSome(inc.path)
          /\ text' = WithLine(fr.path, fr.i, line)
          /\ UNCHANGED <<top, alphabet, seen_owners_files, tree_vars, resolve_vars, pipeline_vars>>
          /\ IF res.err # ""
             THEN Fail(res.err) /\ config' = cfg /\ UNCHANGED stack
             ELSE IF res.is_set
             THEN /\ config' = cfg_set
                  /\ IF set_refused(seen_owners_files)
                     THEN Fail("set_in_include") /\ UNCHANGED stack
                     ELSE Advance /\ UNCHANGED <<status, error, error_chain>>
             ELSE IF IsSome(pat)
             THEN /\ config' = cfg
                  /\ stack' = [stack EXCEPT ![Len(stack)].i = @ + 1,
                                            ![Len(stack)].active_pattern_key = pat]
                  /\ UNCHANGED <<status, error, error_chain>>
             ELSE IF Len(line) > 1
             THEN Fail("whitespace") /\ config' = cfg /\ UNCHANGED stack
             ELSE /\ config' = put_current_set(cfg, fr.active_pattern_key,
                                   [current_set(cfg, fr.active_pattern_key)
                                        EXCEPT !.owners = @ \cup {line[1]}])
                  /\ Advance
                  /\ UNCHANGED <<status, error, error_chain>>

\* parse_text lines 149-150: the text is exhausted; the call returns Ok.  The
\* caller, if any, goes on after its include line (line 105).
EndOfText ==
    /\ status = "running"
    /\ LET fr == TopFrame IN
       /\ fr.i > Len(text[fr.path].lines)
       /\ text' = [text EXCEPT ![fr.path].closed = TRUE]
       /\ seen_owners_files' = MapRemove(seen_owners_files, fr.path)
       /\ IF Len(stack) = 1
          THEN /\ stack' = <<>>
               /\ status' = "ok"
          ELSE /\ stack' = [SubSeq(stack, 1, Len(stack) - 1)
                               EXCEPT ![Len(stack) - 1].i = @ + 1,
                                      ![Len(stack) - 1].active_pattern_key =
                                          key_after_include(@, fr.active_pattern_key)]
               /\ UNCHANGED status
       /\ UNCHANGED <<top, alphabet, config, error, error_chain, tree_vars, resolve_vars, pipeline_vars>>

\* The `?` of lines 70, 84, 93, 95, 104, 120 and the returns of lines 73, 125,
\* 140: the error leaves one parse_text call; seen_owners_files is left as it is.
ReturnErr ==
    /\ status = "err"
    /\ stack # <<>>
    /\ stack' = SubSeq(stack, 1, Len(stack) - 1)
    /\ UNCHANGED <<top, alphabet, text, seen_owners_files, config, status, error, error_chain, tree_vars, resolve_vars, pipeline_vars>>

ParseNext == IncludeLine \/ PlainLine \/ EndOfText \/ ReturnErr

-----------------------------------------------------------------------------
(* owners_tree.rs *)

Root == <<>>

\* Directory names; a directory's entries are a subset of them.
Names == { "a", "b", ".git" }

file_name(path) == path[Len(path)]

\* What maybe_load_owners_file finds in a directory:
\*   "none"      no regular file OWNERS (lines 39-41)
\*   "rejected"  OWNERS is there, allow_filter.allowed(OWNERS) is false (lines 42-49)
\*   "parsed"    OWNERS is there and admitted, from_file returns Ok (lines 52-55)
\*   "fail"      OWNERS is there and admitted, from_file returns Err (line 52)
OwnersOutcomes == { "none", "rejected", "parsed", "fail" }

\* maybe_load_owners_file: Ok(true) exactly when the file was parsed.
maybe_load_owners_file(outcome) == outcome = "parsed"

\* Variant: a file that does not parse is passed over.
owners_file_error_ignored(outcome) == FALSE

\* The `?` of line 52 (and of lines 64 and 91 after it): the error of from_file
\* leaves maybe_load_owners_file and its callers.
owners_file_error(outcome) == outcome = "fail"

\* load_from_files lines 68-71: the root's loop enters an entry only if the filter
\* admits the directory.
root_loop_enters(allowed) == allowed

\* load_children_from_files lines 86-89.
is_git_metadata(directory) == file_name(directory) = ".git"

\* Variant: every visited directory collects what is found below it.
accumulation_point_always_current(has_current_owners_file, directory, self) == directory

\* The node that receives the nodes found below a directory (lines 96-100).
accumulation_point(has_current_owners_file, directory, self) ==
    IF has_current_owners_file THEN directory ELSE self

\* fs::read_dir: the subdirectories of `directory`, each with the filter's answer
\* for it; what lies in a directory is fixed when it is listed.
Listings(directory) ==
    { l \in UNION { [S -> BOOLEAN] : S \in SUBSET Names } :
        Cardinality((DOMAIN dir_info) \ {Root}) + Cardinality(DOMAIN l) <= MaxDirs }

Listed(directory, l) ==
    [p \in (DOMAIN dir_info) \cup { Append(directory, n) : n \in DOMAIN l } |->
        IF p \in DOMAIN dir_info THEN dir_info[p]
        ELSE [allowed |-> l[file_name(p)], owners |-> "unseen"]]

TFrame(directory, self, has, pending) ==
    [directory |-> directory, self |-> self, has |-> has, pending |-> pending]

TTop == tstack[Len(tstack)]

TreeIdle ==
    /\ dir_info = EmptyMap
    /\ tstack = <<>>
    /\ tchildren = EmptyMap
    /\ tconfig = EmptyMap
    /\ tvisited = {}
    /\ tstatus = "idle"

TreeStart ==
    /\ dir_info = EmptyMap
    /\ tstack = <<>>
    /\ tchildren = EmptyMap
    /\ tconfig = EmptyMap
    /\ tvisited = {}
    /\ tstatus = "start"

\* load_from_files lines 63-65: the root node, its OWNERS file, its entries.
LoadRoot ==
    /\ tstatus = "start"
    /\ \E outcome \in OwnersOutcomes, l \in Listings(Root) :
          IF owners_file_error(outcome)
          THEN /\ tstatus' = "err"
               /\ dir_info' = MapInsert(EmptyMap, Root, [allowed |-> TRUE, owners |-> outcome])
               /\ tchildren' = EmptyMap
               /\ tconfig' = EmptyMap
               /\ tvisited' = {Root}
               /\ UNCHANGED tstack
          ELSE /\ tstatus' = "running"
               /\ dir_info' = MapInsert(Listed(Root, l), Root,
                                        [allowed |-> TRUE, owners |-> outcome])
               /\ tstack' = <<TFrame(Root, Root, TRUE, { Append(Root, n) : n \in DOMAIN l })>>
               /\ tchildren' = MapInsert(EmptyMap, Root, <<>>)
               /\ tconfig' = MapInsert(EmptyMap, Root,
                                 IF maybe_load_owners_file(outcome) THEN "parsed" ELSE "default")
               /\ tvisited' = {Root}
    /\ UNCHANGED <<parse_vars, resolve_vars, pipeline_vars>>

\* An entry the loop passes over: load_from_files line 68 (the filter rejects the
\* directory) or load_children_from_files lines 86-89 (.git).
SkipEntry ==
    /\ tstatus = "running"
    /\ \E path \in TTop.pending :
          /\ \/ Len(tstack) = 1 /\ ~root_loop_enters(dir_info[path].allowed)
             \/ is_git_metadata(path)
          /\ tstack' = [tstack EXCEPT ![Len(tstack)].pending = @ \ {path}]
    /\ UNCHANGED <<dir_info, tchildren, tconfig, tvisited, tstatus, parse_vars, resolve_vars, pipeline_vars>>

\* load_children_from_files lines 90-92: a directory is entered.
EnterDir ==
    /\ tstatus = "running"
    /\ \E path \in TTop.pending, outcome \in OwnersOutcomes :
       \E l \in Listings(path) :
          LET has_current_owners_file == maybe_load_owners_file(outcome)
              acc == accumulation_point(TTop.has, TTop.directory, TTop.self)
          IN
          /\ Len(tstack) = 1 => root_loop_enters(dir_info[path].allowed)
          /\ ~is_git_metadata(path)
          /\ IF owners_file_error(outcome)
             THEN /\ tstatus' = "err"
                  /\ tstack' = <<>>
                  /\ tchildren' = EmptyMap
                  /\ tconfig' = EmptyMap
                  /\ dir_info' = [dir_info EXCEPT ![path].owners = outcome]
                  /\ tvisited' = tvisited \cup {path}
             ELSE /\ dir_info' = [Listed(path, l) EXCEPT ![path].owners = outcome]
                  /\ tstack' = Append([tstack EXCEPT ![Len(tstack)].pending = @ \ {path}],
                                      TFrame(path, acc, has_current_owners_file,
                                             { Append(path, n) : n \in DOMAIN l }))
                  /\ tchildren' = IF has_current_owners_file
                                  THEN MapInsert(tchildren, path, <<>>) ELSE tchildren
                  /\ tconfig' = IF has_current_owners_file
                                THEN MapInsert(tconfig, path, "parsed") ELSE tconfig
                  /\ tvisited' = tvisited \cup {path}
                  /\ UNCHANGED tstatus
    /\ UNCHANGED <<parse_vars, resolve_vars, pipeline_vars>>

\* load_children_from_files lines 103-106: the entries are exhausted.
LeaveDir ==
    /\ tstatus = "running"
    /\ Len(tstack) > 1
    /\ TTop.pending = {}
    /\ tchildren' = IF TTop.has
                    THEN [tchildren EXCEPT ![TTop.self] = Append(@, TTop.directory)]
                    ELSE tchildren
    /\ tstack' = SubSeq(tstack, 1, Len(tstack) - 1)
    /\ UNCHANGED <<dir_info, tconfig, tvisited, tstatus, parse_vars, resolve_vars, pipeline_vars>>

\* load_from_files line 75.
ReturnTree ==
    /\ tstatus = "running"
    /\ Len(tstack) = 1
    /\ TTop.pending = {}
    /\ tstack' = <<>>
    /\ tstatus' = "ok"
    /\ UNCHANGED <<dir_info, tchildren, tconfig, tvisited, parse_vars, resolve_vars, pipeline_vars>>

\* pipeline.rs line 47: the `?` on load_from_files.
PipelineFails ==
    /\ tstatus = "err"
    /\ pstatus = "running"
    /\ pstatus' = "err"
    /\ UNCHANGED <<codeowners_text, poutput, parse_vars, tree_vars, resolve_vars>>

\* pipeline.rs lines 49-70: the tree is resolved and serialized, the text is
\* printed (no output file) or written to the output file; create_dir_all and
\* fs::write may fail.
PipelineOutput ==
    /\ tstatus = "ok"
    /\ pstatus = "running"
    /\ \E output_file \in {None, Some("CODEOWNERS")}, io_ok \in BOOLEAN :
          IF ~IsSome(output_file)
          THEN poutput' = "printed" /\ pstatus' = "ok"
          ELSE IF io_ok
          THEN poutput' = "written" /\ pstatus' = "ok"
          ELSE poutput' = "none" /\ pstatus' = "err"
    /\ UNCHANGED <<codeowners_text, parse_vars, tree_vars, resolve_vars>>

TreeNext ==
    \/ LoadRoot \/ SkipEntry \/ EnterDir \/ LeaveDir \/ ReturnTree
    \/ PipelineFails \/ PipelineOutput

-----------------------------------------------------------------------------
(* codeowners.rs *)

\* The trees resolved: the root and any of foo, foo/bar, baz, as load_from_files
\* builds them (a node hangs under its nearest ancestor that is a node).
TreeDirs == { <<"foo">>, <<"foo", "bar">>, <<"baz">> }

\* The owner a directory's OWNERS file may name, and the owner of each pattern.
OwnerOf(path) ==
    CASE path = Root -> "A"
      [] path = <<"foo">> -> "B"
      [] path = <<"foo", "bar">> -> "C"
      [] path = <<"baz">> -> "F"

OverridePatterns == { "*.rs", "bar/" }

PatternOwner(pattern) ==
    CASE pattern = "*.rs" -> "D"
      [] pattern = "bar/" -> "E"

\* A key of the map is a string; here the sequence of its pieces: the leading
\* separator, then one piece per directory component (the component and the
\* separator after it), then the pieces of the pattern.
pattern_pieces(pattern) ==
    CASE pattern = "*.rs" -> <<"*.rs">>
      [] pattern = "bar/" -> <<"bar">>

\* add_codeowners lines 71-80: "/" for the root, "/<relative path>/" below it.
relative_path(path) == <<"/">> \o path

\* Variant: an unset flag inherits when the global default is false.
inherits_against_default(owners_set, implicit) ==
    owners_set.inherit = "true" \/ (~implicit /\ owners_set.inherit = "unset")

\* add_codeowners lines 84 and 95-96.
inherits(owners_set, implicit) ==
    owners_set.inherit = "true" \/ (implicit /\ owners_set.inherit = "unset")

\* Variant: only an explicit `set inherit = true` inherits.
directory_owners_explicit_only(owners_set, parent_owners, implicit) ==
    (IF owners_set.inherit = "true" THEN parent_owners ELSE {}) \cup owners_set.owners

\* add_codeowners lines 83-87.
directory_owners(owners_set, parent_owners, implicit) ==
    (IF inherits(owners_set, implicit) THEN parent_owners ELSE {}) \cup owners_set.owners

\* add_codeowners lines 94-99.
override_owners(override_owners_set, owners, implicit) ==
    override_owners_set.owners \cup
        (IF inherits(override_owners_set, implicit) THEN owners ELSE {})

\* add_codeowners lines 93-103; todo is what the iteration over the HashMap
\* pattern_overrides has yet to yield, in the order it yields it.
RECURSIVE add_overrides(_, _, _, _, _, _)
add_overrides(overrides, todo, rel, owners, implicit, map) ==
    IF todo = <<>> THEN map
    ELSE LET pattern == Head(todo)
         IN  add_overrides(overrides, Tail(todo), rel, owners, implicit,
                 MapInsert(map, rel \o pattern_pieces(pattern),
                           override_owners(overrides[pattern], owners, implicit)))

\* Variant: a node hands down its local owners only.
owners_for_children_local(owners, owners_set) == owners_set.owners

\* What a node hands down to its children (line 106).
owners_for_children(owners, owners_set) == owners

\* add_codeowners; add_children is its loop of lines 105-107.  iter[path] is the
\* order in which the overrides of the node at path are iterated.
RECURSIVE add_codeowners(_, _, _, _, _, _)
RECURSIVE add_children(_, _, _, _, _, _)

\* Variant: the loop over the children ends after the first child.
add_children_first_only(tree, children, owners, implicit, iter, map) ==
    IF children = <<>> THEN map
    ELSE add_codeowners(tree, Head(children), owners, implicit, iter, map)

add_codeowners(tree, path, parent_owners, implicit, iter, map) ==
    LET owners_config == tree[path].owners_config
        owners_set == owners_config.all_files
        rel == relative_path(path)
        owners == directory_owners(owners_set, parent_owners, implicit)
        with_dir == MapInsert(map, rel, owners)
        with_overrides == add_overrides(owners_config.pattern_overrides, iter[path],
                              rel, owners, implicit, with_dir)
    IN  add_children(tree, tree[path].children,
                     owners_for_children(owners, owners_set), implicit, iter, with_overrides)

add_children(tree, children, owners, implicit, iter, map) ==
    IF children = <<>> THEN map
    ELSE add_children(tree, Tail(children), owners, implicit, iter,
             add_codeowners(tree, Head(children), owners, implicit, iter, map))

\* generate_codeowners
generate_codeowners(tree, implicit, iter) ==
    add_codeowners(tree, Root, {}, implicit, iter, EmptyMap)

\* The orders in which the elements of a set can come: a Vec filled in any
\* order, or the iteration of a HashMap or HashSet.
Orderings(S) ==
    { q \in [1..Cardinality(S) -> S] : \A i, j \in 1..Cardinality(S) : i # j => q[i] # q[j] }

\* The functions that take each x of DOMAIN opts to one of opts[x].
RECURSIVE Product(_)
Product(opts) ==
    IF DOMAIN opts = {} THEN { EmptyMap }
    ELSE LET x == CHOOSE y \in DOMAIN opts : TRUE
             rest == Product([y \in (DOMAIN opts) \ {x} |-> opts[y]])
         IN  { MapInsert(r, x, v) : r \in rest, v \in opts[x] }

\* The iteration orders of the pattern_overrides of every node of a tree.
IterationOrders(tree) ==
    Product([p \in DOMAIN tree |-> Orderings(DOMAIN tree[p].owners_config.pattern_overrides)])

\* ---- the trees handed to generate_codeowners

is_proper_prefix(p, q) == Len(p) < Len(q) /\ SubSeq(q, 1, Len(p)) = p

\* The node a directory hangs under: its nearest proper ancestor among `nodes`.
TreeParent(nodes, path) ==
    CHOOSE p \in nodes :
        /\ is_proper_prefix(p, path)
        /\ \A q \in nodes : is_proper_prefix(q, path) => Len(q) <= Len(p)

\* The children of every node, in any of the orders read_dir can bring them.
ChildOrders(nodes) ==
    Product([p \in nodes |-> Orderings({ c \in nodes \ {Root} : TreeParent(nodes, c) = p })])

\* The blanket sets a node may declare; baz, the sibling of foo, leaves its flag
\* unset.
BlanketSets(path) ==
    { [inherit |-> i, owners |-> o] :
        i \in (IF path = <<"baz">> THEN {"unset"} ELSE {"unset", "true", "false"}),
        o \in { {}, {OwnerOf(path)} } }

OverrideSet(pattern, i) == [inherit |-> i, owners |-> {PatternOwner(pattern)}]

\* The overrides of a tree: at most MaxOverrides (node, pattern, inherit) triples,
\* a pattern at most once per node.
\* The nodes whose OWNERS file may hold pattern sections.
OverrideSites == { Root, <<"foo">> }

RECURSIVE OverrideChoicesUpTo(_, _)
OverrideChoicesUpTo(nodes, k) ==
    IF k = 0 THEN { {} }
    ELSE LET fewer == OverrideChoicesUpTo(nodes, k - 1)
         IN  fewer \cup
             { O \cup {x} :
                 <<O, x>> \in
                     { ox \in fewer \X ((nodes \cap OverrideSites) \X OverridePatterns
                                        \X {"unset", "true", "false"}) :
                         \A y \in ox[1] : ~(ox[2][1] = y[1] /\ ox[2][2] = y[2]) } }

OverridesOf(O, path) ==
    [pattern \in { x[2] : x \in { y \in O : y[1] = path } } |->
        OverrideSet(pattern, (CHOOSE x \in O : x[1] = path /\ x[2] = pattern)[3])]

MakeTree(nodes, blanket, O, ord) ==
    [path \in nodes |->
        [owners_config |-> [all_files |-> blanket[path],
                            pattern_overrides |-> OverridesOf(O, path)],
         children |-> ord[path]]]

ResolveIdle ==
    /\ owners_tree = EmptyMap
    /\ implicit_inherit = FALSE
    /\ codeowners = EmptyMap
    /\ rstatus = "idle"

\* The arguments of generate_codeowners: a tree over the root and one of the
\* sets `belows` of directories, with up to max_overrides pattern overrides.
StartWith(belows, max_overrides) ==
    /\ \E below \in belows :
          LET nodes == {Root} \cup below IN
          \E O \in OverrideChoicesUpTo(nodes, max_overrides), ord \in ChildOrders(nodes) :
          \E ra \in BlanketSets(Root),
             rb \in (IF <<"foo">> \in nodes THEN BlanketSets(<<"foo">>) ELSE {OwnersSetDefault}),
             rc \in (IF <<"foo", "bar">> \in nodes
                     THEN BlanketSets(<<"foo", "bar">>) ELSE {OwnersSetDefault}),
             rd \in (IF <<"baz">> \in nodes THEN BlanketSets(<<"baz">>) ELSE {OwnersSetDefault}) :
             owners_tree = MakeTree(nodes,
                               [path \in nodes |->
                                   CASE path = Root -> ra
                                     [] path = <<"foo">> -> rb
                                     [] path = <<"foo", "bar">> -> rc
                                     [] path = <<"baz">> -> rd],
                               O, ord)
    /\ implicit_inherit \in BOOLEAN
    /\ codeowners = EmptyMap
    /\ rstatus = "input"

ResolveStart == StartWith(SUBSET TreeDirs, MaxOverrides)

GenerateCodeowners ==
    /\ rstatus = "input"
    /\ \E iter \in IterationOrders(owners_tree) :
          codeowners' = generate_codeowners(owners_tree, implicit_inherit, iter)
    /\ rstatus' = "done"
    /\ UNCHANGED <<owners_tree, implicit_inherit, parse_vars, tree_vars, pipeline_vars>>

ResolveNext == GenerateCodeowners

-----------------------------------------------------------------------------
(* codeowners.rs: to_codeowners_string *)

\* A String is the sequence of its characters.  The owner identifiers and the
\* pieces of the keys, spelled out.
chars(owner) ==
    CASE owner = "a" -> <<"a">>
      [] owner = "@a" -> <<"@", "a">>
      [] owner = "a@x" -> <<"a", "@", "x">>
      [] owner = "B" -> <<"B">>
      [] OTHER -> <<owner>>

piece_chars(piece) ==
    CASE piece = "/" -> <<"/">>
      [] piece = "foo" -> <<"f", "o", "o", "/">>
      [] piece = "bar" -> <<"b", "a", "r", "/">>
      [] piece = "baz" -> <<"b", "a", "z", "/">>
      [] piece = "*.rs" -> <<"*", ".", "r", "s">>

RECURSIVE key_string(_)
key_string(key) ==
    IF key = <<>> THEN <<>> ELSE piece_chars(Head(key)) \o key_string(Tail(key))

\* The map as the HashMap<String, HashSet<String>> the serializer is given.
Strings(map) ==
    [k \in { key_string(key) : key \in DOMAIN map } |->
        { chars(o) : o \in map[CHOOSE key \in DOMAIN map : key_string(key) = k] }]

\* The byte of a character.
byte(c) ==
    CASE c = "\n" -> 10 [] c = " " -> 32 [] c = "*" -> 42 [] c = "." -> 46
      [] c = "/" -> 47 [] c = "@" -> 64
      [] c = "A" -> 65 [] c = "B" -> 66 [] c = "C" -> 67
      [] c = "D" -> 68 [] c = "E" -> 69 [] c = "F" -> 70
      [] c = "a" -> 97 [] c = "b" -> 98 [] c = "f" -> 102 [] c = "o" -> 111
      [] c = "r" -> 114 [] c = "s" -> 115 [] c = "x" -> 120 [] c = "z" -> 122

\* Ord of String: byte by byte, a proper prefix first.
RECURSIVE str_lt(_, _)
str_lt(s, t) ==
    IF t = <<>> THEN FALSE
    ELSE IF s = <<>> THEN TRUE
    ELSE IF Head(s) = Head(t) THEN str_lt(Tail(s), Tail(t))
    ELSE byte(Head(s)) < byte(Head(t))

RECURSIVE insert_sorted(_, _)

\* Variant: the item is put first.
insert_first(seq, x) == <<x>> \o seq

\* The place of an item among sorted items: before the first greater one.
insert_sorted(seq, x) ==
    IF seq = <<>> THEN <<x>>
    ELSE IF str_lt(x, Head(seq)) THEN <<x>> \o seq
    ELSE <<Head(seq)>> \o insert_sorted(Tail(seq), x)

\* Variant: the items stay in the order of the iteration.
unsorted(seq) == seq

RECURSIVE sorted(_)
\* Itertools::sorted (lines 9 and 22): the items of an iteration, ascending.
sorted(seq) ==
    IF seq = <<>> THEN <<>>
    ELSE insert_sorted(sorted(SubSeq(seq, 1, Len(seq) - 1)), seq[Len(seq)])

contains(s, c) == \E i \in 1..Len(s) : s[i] = c

\* Variant: an owner is left as it is only if it begins with `@`.
render_owner_by_first_char(owner) ==
    IF owner # <<>> /\ Head(owner) = "@" THEN owner ELSE <<"@">> \o owner

\* Lines 23-35.
render_owner(owner) == IF contains(owner, "@") THEN owner ELSE <<"@">> \o owner

\* Variant: the root key is written like every other key.
render_pattern_verbatim(pattern) == pattern

\* Lines 11-17.
render_pattern(pattern) == IF pattern = <<"/">> THEN <<"*">> ELSE pattern

\* Variant: no line is dropped.
keep_line_always(line) == TRUE

\* Line 43.
keep_line(line) == line # <<"*">>

\* Itertools::join
RECURSIVE join(_, _)
join(items, sep) ==
    IF items = <<>> THEN <<>>
    ELSE IF Len(items) = 1 THEN Head(items)
    ELSE Head(items) \o <<sep>> \o join(Tail(items), sep)

\* to_codeowners_string; key_iter is the order in which codeowners.keys() yields
\* the keys, owner_iter[key] the order in which the set of a key is iterated.
to_codeowners_string(map, key_iter, owner_iter) ==
    LET keys == sorted(key_iter)
        line_of(pattern) ==
            LET owners_sorted == sorted(owner_iter[pattern])
                owners == join([i \in 1..Len(owners_sorted) |-> render_owner(owners_sorted[i])],
                               " ")
            IN  IF owners # <<>>
                THEN render_pattern(pattern) \o <<" ">> \o owners
                ELSE render_pattern(pattern)
    IN  join(SelectSeq([i \in 1..Len(keys) |-> line_of(keys[i])], keep_line), "\n")

\* pipeline.rs line 50: the map is handed to to_codeowners_string.
ToCodeownersString ==
    /\ rstatus = "done"
    /\ codeowners_text = None
    /\ LET map == Strings(codeowners) IN
       \E key_iter \in Orderings(DOMAIN map) :
       \E owner_iter \in Product([k \in DOMAIN map |-> Orderings(map[k])]) :
          codeowners_text' = Some(to_codeowners_string(map, key_iter, owner_iter))
    /\ UNCHANGED <<poutput, pstatus, parse_vars, tree_vars, resolve_vars>>

\* ---- the maps handed to to_codeowners_string

\* Keys of a map, owners of a set.
MaxEntries == 2
MaxSetSize == 2

SerialKeys == { <<"/">>, <<"/", "*.rs">>, <<"/", "foo">> }
SerialOwners == { "a", "@a", "a@x", "B" }

SerialSets == { S \in SUBSET SerialOwners : Cardinality(S) <= MaxSetSize }

SerializeStart ==
    /\ owners_tree = EmptyMap
    /\ implicit_inherit = FALSE
    /\ \E K \in { X \in SUBSET SerialKeys : Cardinality(X) <= MaxEntries } :
          codeowners \in [K -> SerialSets]
    /\ rstatus = "done"

SerializeNext == ToCodeownersString

-----------------------------------------------------------------------------
(* pipeline.rs *)

PipelineIdle ==
    /\ codeowners_text = None
    /\ poutput = "none"
    /\ pstatus = "idle"

\* Nodes of a tree resolved and serialized in one run.
MaxPipelineNodes == 2

\* generate_codeowners_from_files after line 47: trees of blanket declarations.
PipelineStart ==
    /\ StartWith({ below \in SUBSET TreeDirs : Cardinality(below) < MaxPipelineNodes }, 0)
    /\ codeowners_text = None
    /\ poutput = "none"
    /\ pstatus = "running"

\* Lines 49 and 50.
PipelineNext == GenerateCodeowners \/ ToCodeownersString

-----------------------------------------------------------------------------
(* Specifications *)

Init == ParseStart /\ TreeIdle /\ ResolveIdle /\ PipelineIdle
Next == ParseNext
Spec == Init /\ [][Next]_vars

\* parse_text is sequential code: a call that can take a step takes it.
FairInit == ParseStartWith(WalkLines) /\ TreeIdle /\ ResolveIdle /\ PipelineIdle
FairSpec == FairInit /\ [][Next]_vars /\ WF_vars(Next)

SetInit == ParseStartWith(SetFileLines) /\ TreeIdle /\ ResolveIdle /\ PipelineIdle
SetSpec == SetInit /\ [][Next]_vars

TreeInit ==
    /\ ParseIdle /\ TreeStart /\ ResolveIdle
    /\ codeowners_text = None /\ poutput = "none" /\ pstatus = "running"
TreeSpec == TreeInit /\ [][TreeNext]_vars

ResolveInit == ParseIdle /\ TreeIdle /\ ResolveStart /\ PipelineIdle
ResolveSpec == ResolveInit /\ [][ResolveNext]_vars

\* The resolver on every tree shape and flag, with fewer overrides.
InheritInit ==
    ParseIdle /\ TreeIdle /\ StartWith(SUBSET TreeDirs, MaxInheritOverrides) /\ PipelineIdle
InheritSpec == InheritInit /\ [][ResolveNext]_vars

PipelineInit == ParseIdle /\ TreeIdle /\ PipelineStart
PipelineSpec == PipelineInit /\ [][PipelineNext]_vars

SerializeInit == ParseIdle /\ TreeIdle /\ SerializeStart /\ PipelineIdle
SerializeSpec == SerializeInit /\ [][SerializeNext]_vars

-----------------------------------------------------------------------------
(* Properties of the resolver *)

\* The node whose children list holds `path`.
NodeParent(path) ==
    CHOOSE p \in DOMAIN owners_tree :
        \E i \in 1..Len(owners_tree[p].children) : owners_tree[p].children[i] = path

Enabled(owners_set) ==
    \/ owners_set.inherit = "true"
    \/ owners_set.inherit = "unset" /\ implicit_inherit

\* The effective blanket set as section 4.4 defines it, top-down.
RECURSIVE EffectiveBlanket(_)
EffectiveBlanket(path) ==
    LET set == owners_tree[path].owners_config.all_files
    IN  IF path = Root THEN set.owners
        ELSE set.owners \cup
                 (IF Enabled(set) THEN EffectiveBlanket(NodeParent(path)) ELSE {})

\* C1: the set recorded under a node's path key is its local blanket owners,
\* joined with the parent node's effective blanket set exactly when the node's
\* flag is true, or unset under a true global default; at the root it is the
\* local blanket owners whatever the flag.
C1_BlanketInheritance ==
    rstatus = "done" =>
        \A path \in DOMAIN owners_tree :
            /\ relative_path(path) \in DOMAIN codeowners
            /\ codeowners[relative_path(path)] = EffectiveBlanket(path)

\* foo/bar leaves its flag unset under a true default and receives, through foo,
\* the root's owner as well.
C1_Witness ==
    /\ rstatus = "done"
    /\ implicit_inherit
    /\ DOMAIN owners_tree = {Root, <<"foo">>, <<"foo", "bar">>}
    /\ owners_tree[<<"foo", "bar">>].owners_config.all_files.inherit = "unset"
    /\ owners_tree[<<"foo">>].owners_config.all_files.inherit = "true"
    /\ owners_tree[Root].owners_config.all_files.inherit = "false"
    /\ codeowners[<<"/", "foo", "bar">>] = {"A", "B", "C"}

\* C2: the set recorded under (node key + pattern) is the override's local
\* owners, joined with the node's own effective blanket set exactly when the
\* override's flag is true, or unset under a true global default.
C2_OverrideInheritance ==
    rstatus = "done" =>
        \A path \in DOMAIN owners_tree :
            \A pattern \in DOMAIN owners_tree[path].owners_config.pattern_overrides :
                LET set == owners_tree[path].owners_config.pattern_overrides[pattern]
                    key == relative_path(path) \o pattern_pieces(pattern)
                IN  /\ key \in DOMAIN codeowners
                    /\ codeowners[key] =
                           set.owners \cup
                               (IF Enabled(set) THEN EffectiveBlanket(path) ELSE {})

-----------------------------------------------------------------------------
(* Properties of the tree builder *)

RECURSIVE Subtree(_)
Subtree(path) ==
    {path} \cup UNION { Subtree(tchildren[path][i]) : i \in 1..Len(tchildren[path]) }

\* The nodes of the tree load_from_files returns.
TreeNodes == Subtree(Root)

\* How often a directory occurs in the children lists of the tree.
Occurrences(path) ==
    Cardinality({ pi \in TreeNodes \X (1..MaxDirs) :
                    pi[2] <= Len(tchildren[pi[1]]) /\ tchildren[pi[1]][pi[2]] = path })

Declared(path) == dir_info[path].owners = "parsed"

\* C4: the nodes are the root and every visited directory with an admitted
\* OWNERS file, each once; a node is a child of the node of its nearest proper
\* ancestor directory that has one.
C4_TreeShape ==
    tstatus = "ok" =>
        /\ TreeNodes = {Root} \cup { d \in tvisited : Declared(d) }
        /\ tconfig[Root] = (IF Declared(Root) THEN "parsed" ELSE "default")
        /\ \A d \in TreeNodes \ {Root} :
              /\ Occurrences(d) = 1
              /\ \E p \in TreeNodes :
                    /\ \E i \in 1..Len(tchildren[p]) : tchildren[p][i] = d
                    /\ is_proper_prefix(p, d)
                    /\ \A q \in TreeNodes : is_proper_prefix(q, d) => Len(q) <= Len(p)

\* a has an OWNERS file, a/b has none, a/b/a has one: a/b/a hangs under a.
C4_Witness ==
    /\ tstatus = "ok"
    /\ <<"a", "b">> \in DOMAIN dir_info
    /\ dir_info[<<"a", "b">>].owners \in {"none", "rejected"}
    /\ TreeNodes = {Root, <<"a">>, <<"a", "b", "a">>}
    /\ tchildren[Root] = << <<"a">> >>
    /\ tchildren[<<"a">>] = << <<"a", "b", "a">> >>

\* C5: a directory the predicate rejects is skipped with everything below it:
\* the tree holds no node for it or for a directory beneath it.
C5_RejectedBranches ==
    tstatus = "ok" =>
        \A d \in (DOMAIN dir_info) \ {Root} :
            ~dir_info[d].allowed =>
                \A n \in TreeNodes : ~(n = d \/ is_proper_prefix(d, n))

-----------------------------------------------------------------------------
(* Properties of the declaration parser *)

IsInclude(line) == line[1] = "include" /\ Len(line) = 2

\* The step at hand handles line i of the file of the innermost call.
LineStep ==
    /\ status = "running"
    /\ stack # <<>>
    /\ TopFrame.i <= Len(text'[TopFrame.path].lines)

StepLine == text'[TopFrame.path].lines[TopFrame.i]

\* The files the include lines of f name, as far as they resolve.
IncludeEdges(f) ==
    { Unwrap(r.path) :
        r \in { x \in { resolve_include_path(RepoBase, f, text[f].lines[i][2]) :
                          i \in { j \in 1..Len(text[f].lines) : IsInclude(text[f].lines[j]) } } :
                  x.err = "" } }

RECURSIVE ReachFrom(_)
ReachFrom(S) ==
    LET N == S \cup UNION { IncludeEdges(f) : f \in S }
    IN  IF N = S THEN S ELSE ReachFrom(N)

OnCycle(f) == f \in ReachFrom(IncludeEdges(f))

\* C3: a file is never expanded while it is being expanded, and a parse whose
\* includes lead to a cycle (of any length, through the top-level file or not)
\* does not succeed.
C3_CyclesRejected ==
    /\ \A i, j \in 1..Len(stack) : i # j => stack[i].path # stack[j].path
    /\ status = "ok" => \A f \in ReachFrom({top}) : ~OnCycle(f)

\* The cycle is found two includes deep and closes on an included file, not on
\* the top-level file.
C3_Witness ==
    /\ status = "err"
    /\ error = "cycle"
    /\ Len(stack) = 3
    /\ IsInclude(text[stack[3].path].lines[stack[3].i])
    /\ resolve_include_path(RepoBase, stack[3].path,
                            text[stack[3].path].lines[stack[3].i][2]).path = Some(stack[2].path)

\* Lexical form of a path: ".." removes the component before it.
RECURSIVE Normalize(_, _)
Normalize(done, rest) ==
    IF rest = <<>> THEN done
    ELSE IF Head(rest) = ".." THEN Normalize(parent(done), Tail(rest))
    ELSE Normalize(Append(done, Head(rest)), Tail(rest))

StartsWithSeparator(tok) == tok = "/d/X"

\* C6: an included file is the one its include path names from the repository
\* base when the path starts with a separator, and from the directory of the
\* file holding the include line otherwise.
C6_IncludeResolution ==
    \A k \in 2..Len(stack) :
        LET line == text[stack[k - 1].path].lines[stack[k - 1].i]
        IN  /\ IsInclude(line)
            /\ stack[k].path =
                   Normalize(<<>>,
                       (IF StartsWithSeparator(line[2])
                        THEN RepoBase ELSE parent(stack[k - 1].path))
                       \o components(line[2]))

\* r/OWNERS includes /d/X, which includes OWNERS: that is r/d/OWNERS, the file
\* beside X, not r/OWNERS beside the top-level file.
C6_Witness ==
    /\ Len(stack) = 3
    /\ stack[1].path = <<"r", "OWNERS">>
    /\ stack[2].path = <<"r", "d", "X">>
    /\ text[stack[2].path].lines[stack[2].i] = <<"include", "OWNERS">>
    /\ stack[3].path = <<"r", "d", "OWNERS">>

\* C7 as stated: an include line in an included file ends the parse with an error.
C7_NestedIncludeRejected ==
    [][(LineStep /\ Len(stack) >= 2 /\ IsInclude(StepLine)) => status' = "err"]_vars

\* C7, amended: an include line in the blanket scope of an included file is
\* expanded like one of the top-level file, when its path resolves inside the
\* repository base to a file that is not being expanded.
C7_NestedIncludeExpanded ==
    [][(/\ LineStep
        /\ Len(stack) >= 2
        /\ IsInclude(StepLine)
        /\ ~IsSome(TopFrame.active_pattern_key)
        /\ LET res == resolve_include_path(RepoBase, TopFrame.path, StepLine[2])
           IN  res.err = "" /\ Unwrap(res.path) \notin DOMAIN seen_owners_files)
       => /\ status' = "running"
          /\ Len(stack') = Len(stack) + 1
          /\ config' = config]_vars

C7_Witness ==
    /\ status = "running"
    /\ Len(stack) = 3

\* C8: an include line in a pattern section ends the parse with an error; no
\* file is opened and the configuration is as before.
C8_IncludeInPatternRejected ==
    [][(LineStep /\ IsInclude(StepLine) /\ IsSome(TopFrame.active_pattern_key))
       => /\ status' = "err"
          /\ stack' = stack
          /\ config' = config]_vars

C8_Witness ==
    /\ status = "err"
    /\ error = "include_in_pattern"
    /\ stack # <<>>
    /\ TopFrame.active_pattern_key = Some("p")
    /\ IsInclude(text[TopFrame.path].lines[TopFrame.i])

\* C9: a set directive fails the parse in any included file and is taken in the
\* top-level file, before and after its include lines.
C9_SetOnlyInTopLevel ==
    [][(LineStep /\ StepLine \in SetLines)
       => IF Len(stack) >= 2
          THEN status' = "err"
          ELSE /\ status' = "running"
               /\ stack' = [stack EXCEPT ![1].i = @ + 1]
               /\ current_set(config', TopFrame.active_pattern_key).inherit = StepLine[4]]_vars

\* The top-level file's set line was taken, then an include was expanded and a
\* set line in a pattern section of the included file ended the parse.
C9_Witness ==
    /\ status = "err"
    /\ error = "set_in_include"
    /\ Len(stack) = 2
    /\ text[top].lines[1] \in SetLines
    /\ IsSome(TopFrame.active_pattern_key)

IsHeader(line) == IsSome(maybe_get_file_pattern(line))

\* The pattern section line i of f lies in: None before the first header.
RECURSIVE SectionOf(_, _)
SectionOf(f, i) ==
    IF i = 0 THEN None
    ELSE IF IsHeader(text[f].lines[i]) THEN maybe_get_file_pattern(text[f].lines[i])
    ELSE SectionOf(f, i - 1)

IsOwner(line) == Len(line) = 1 /\ line[1] \in Owners

\* The owners f gives to `section`, its includes merged in.
RECURSIVE Merged(_, _)
Merged(f, section) ==
    { text[f].lines[i][1] :
        i \in { j \in 1..Len(text[f].lines) :
                  IsOwner(text[f].lines[j]) /\ SectionOf(f, j) = section } }
    \cup UNION { Merged(g, section) : g \in IncludeEdges(f) }

\* C10: the owner lines of an included file land where they would in a file
\* of their own, blanket lines in the blanket set and the lines after [p] in
\* override p, and the lines after an include line stay in the blanket set.
C10_IncludeMerge ==
    status = "ok" =>
        /\ config.all_files.owners = Merged(top, None)
        /\ \A p \in Patterns :
              /\ Merged(top, Some(p)) # {} => p \in DOMAIN config.pattern_overrides
              /\ p \in DOMAIN config.pattern_overrides =>
                     config.pattern_overrides[p].owners = Merged(top, Some(p))

\* The included file opens [p] and names a; the line after the include names b.
C10_Witness ==
    /\ status = "ok"
    /\ Len(text[top].lines) = 2
    /\ IsInclude(text[top].lines[1])
    /\ text[top].lines[2] = <<"b">>
    /\ config.all_files.owners = {"b"}
    /\ "p" \in DOMAIN config.pattern_overrides
    /\ config.pattern_overrides["p"].owners = {"a"}

\* The file an include path of file f names, symbolic steps resolved; None when
\* there is no such file.
IncludeTarget(f, tok) ==
    canonicalize((IF is_absolute(tok) THEN RepoBase ELSE parent(f)) \o components(tok))

InsideBase(f) == is_proper_prefix(RepoBase, f)

\* C11: an include line whose target lies outside the repository base ends the
\* parse with an error, no call is opened for the target, the configuration is
\* as before, and no line of a file outside the base is ever read.
C11_OutsideBaseRejected ==
    [][/\ (/\ LineStep
           /\ IsInclude(StepLine)
           /\ IsSome(IncludeTarget(TopFrame.path, StepLine[2]))
           /\ ~InsideBase(Unwrap(IncludeTarget(TopFrame.path, StepLine[2]))))
          => /\ status' = "err"
             /\ stack' = stack
             /\ config' = config
       /\ \A f \in AllFiles : ~InsideBase(f) => text'[f].lines = <<>>]_vars

\* r/OWNERS names a, then includes ../OWNERS, the file above the base.
C11_Witness ==
    /\ status = "err"
    /\ error = "outside_base"
    /\ stack # <<>>
    /\ TopFrame.path = <<"r", "OWNERS">>
    /\ TopFrame.i = 2
    /\ text[TopFrame.path].lines = << <<"a">>, <<"include", "../OWNERS">> >>
    /\ config.all_files.owners = {"a"}
    /\ text[<<"OWNERS">>].lines = <<>>

-----------------------------------------------------------------------------
(* Properties of the resolved map *)

\* What the tree declares: a pair <<node, None>> per node and a pair
\* <<node, Some(pattern)>> per pattern override.
TreeEntries ==
    { <<p, None>> : p \in DOMAIN owners_tree }
    \cup UNION { { <<p, Some(pattern)>> :
                    pattern \in DOMAIN owners_tree[p].owners_config.pattern_overrides } :
                 p \in DOMAIN owners_tree }

\* The key of an entry: the node's key, then the pattern as written.
EntryKey(e) ==
    relative_path(e[1]) \o (IF IsSome(e[2]) THEN pattern_pieces(Unwrap(e[2])) ELSE <<>>)

\* C12: the map holds one entry per node and one per pattern override, under
\* pairwise distinct keys: as many entries as nodes and overrides together.
C12_KeysDistinct ==
    rstatus = "done" =>
        /\ DOMAIN codeowners = { EntryKey(e) : e \in TreeEntries }
        /\ \A e1, e2 \in TreeEntries : e1 # e2 => EntryKey(e1) # EntryKey(e2)
        /\ Cardinality(DOMAIN codeowners) = Cardinality(TreeEntries)

\* The nodes left when the siblings of n (the other nodes below its parent) and
\* everything below n are taken away.
Kept(n) ==
    IF n = Root THEN {Root}
    ELSE { x \in DOMAIN owners_tree : x = n \/ ~is_proper_prefix(NodeParent(n), x) }

Pruned(n) ==
    [x \in Kept(n) |->
        [owners_tree[x] EXCEPT !.children = SelectSeq(@, LAMBDA c : c \in Kept(n))]]

\* C14: the sets under a node's key and under its override keys are those of
\* the tree without the node's siblings and descendants.
C14_NoSiblingOrDescendantInfluence ==
    rstatus = "done" =>
        \A n \in DOMAIN owners_tree :
            \A iter \in IterationOrders(Pruned(n)) :
                LET alone == generate_codeowners(Pruned(n), implicit_inherit, iter)
                IN  \A e \in { x \in TreeEntries : x[1] = n } :
                        /\ EntryKey(e) \in DOMAIN codeowners
                        /\ codeowners[EntryKey(e)] = alone[EntryKey(e)]

\* The children lists of a tree, each in any order.
ChildPermutations(tree) ==
    Product([p \in DOMAIN tree |->
                Orderings({ tree[p].children[i] : i \in 1..Len(tree[p].children) })])

Permuted(tree, ord) == [p \in DOMAIN tree |-> [tree[p] EXCEPT !.children = ord[p]]]

\* C20: the map is the same for every order of every children list and every
\* iteration order of every node's overrides.
C20_Deterministic ==
    rstatus = "done" =>
        \A ord \in ChildPermutations(owners_tree), iter \in IterationOrders(owners_tree) :
            generate_codeowners(Permuted(owners_tree, ord), implicit_inherit, iter) = codeowners

\* The root has the children baz and foo, in this order, and two overrides.
C20_Witness ==
    /\ rstatus = "done"
    /\ owners_tree[Root].children = << <<"baz">>, <<"foo">> >>
    /\ DOMAIN owners_tree[Root].owners_config.pattern_overrides = OverridePatterns
    /\ codeowners[<<"/", "baz">>] = {"A", "F"}
    /\ codeowners[<<"/", "foo">>] = {"B"}
    /\ codeowners[<<"/", "bar">>] = {"A", "E"}
    /\ codeowners[<<"/", "*.rs">>] = {"D"}

-----------------------------------------------------------------------------
(* Properties of the serializer *)

RECURSIVE split(_, _)
split(s, sep) ==
    IF s = <<>> THEN <<>>
    ELSE IF ~contains(s, sep) THEN <<s>>
    ELSE LET i == CHOOSE j \in 1..Len(s) : s[j] = sep /\ \A k \in 1..(j - 1) : s[k] # sep
         IN  <<SubSeq(s, 1, i - 1)>> \o split(SubSeq(s, i + 1, Len(s)), sep)

Printed == IsSome(codeowners_text)

\* The lines of the text, and the tokens of a line: its pattern, then its owners.
TextLines == split(Unwrap(codeowners_text), "\n")
Tokens(line) == split(line, " ")
OwnerTokens(line) == Tail(Tokens(line))

SerialMap == Strings(codeowners)

\* The key a line stands for.
LineKey(line) == IF Tokens(line)[1] = <<"*">> THEN <<"/">> ELSE Tokens(line)[1]

\* The keys that get a line: all but a root key without owners.
EmittedKeys == { k \in DOMAIN SerialMap : ~(k = <<"/">> /\ SerialMap[k] = {}) }

\* C15: there is one line per key that gets one, the lines stand in ascending
\* order of their keys, and the text is the same for every order in which the
\* map and its sets are iterated.
C15_LinesSortedByKey ==
    Printed =>
        /\ Len(TextLines) = Cardinality(EmittedKeys)
        /\ \A i \in 1..Len(TextLines) : LineKey(TextLines[i]) \in EmittedKeys
        /\ \A i, j \in 1..Len(TextLines) :
              i < j => str_lt(LineKey(TextLines[i]), LineKey(TextLines[j]))
        /\ \A key_iter \in Orderings(DOMAIN SerialMap) :
           \A owner_iter \in Product([k \in DOMAIN SerialMap |-> Orderings(SerialMap[k])]) :
              to_codeowners_string(SerialMap, key_iter, owner_iter) = Unwrap(codeowners_text)

\* /*.rs comes before /foo/.
C15_Witness ==
    /\ Printed
    /\ DOMAIN codeowners = { <<"/", "foo">>, <<"/", "*.rs">> }
    /\ Len(TextLines) = 2
    /\ LineKey(TextLines[1]) = <<"/", "*", ".", "r", "s">>
    /\ LineKey(TextLines[2]) = <<"/", "f", "o", "o", "/">>

\* C16 as stated: the owner tokens of a line ascend.
C16_OwnerTokensAscending ==
    Printed =>
        \A n \in 1..Len(TextLines) :
            LET toks == OwnerTokens(TextLines[n])
            IN  \A i, j \in 1..Len(toks) : i < j => ~str_lt(toks[j], toks[i])

\* The token of an owner.
Rendered(owner) == IF contains(owner, "@") THEN owner ELSE <<"@">> \o owner

\* C16, amended: the owner tokens of a line are those of the owners of its key
\* taken in ascending order of the owner identifiers as the set holds them.
C16_OwnersAscending ==
    Printed =>
        \A n \in 1..Len(TextLines) :
            LET toks == OwnerTokens(TextLines[n])
                owners == SerialMap[LineKey(TextLines[n])]
            IN  \E q \in Orderings(owners) :
                    /\ \A i, j \in 1..Len(q) : i < j => str_lt(q[i], q[j])
                    /\ toks = [i \in 1..Len(q) |-> Rendered(q[i])]

\* @a is before B and written as it is, B gets the prefix: the line is
\* `/foo/ @a @B`, and @B is less than @a.
C16_Witness ==
    /\ Printed
    /\ DOMAIN codeowners = { <<"/", "foo">> }
    /\ codeowners[<<"/", "foo">>] = { "@a", "B" }
    /\ Len(TextLines) = 1
    /\ OwnerTokens(TextLines[1]) = << <<"@", "a">>, <<"@", "B">> >>

-----------------------------------------------------------------------------
(* Properties of the pipeline *)

\* The nodes below the root that name no owner and do not inherit.
Unowned ==
    { n \in (DOMAIN owners_tree) \ {Root} :
        /\ owners_tree[n].owners_config.all_files.owners = {}
        /\ ~Enabled(owners_tree[n].owners_config.all_files) }

\* C13: a node below the root without owners and without inheritance has an
\* entry with the empty set, and its line is its key and nothing more; a root
\* key with the empty set has no line.
C13_EmptyOwnerSets ==
    /\ rstatus = "done" =>
           \A n \in Unowned :
               /\ relative_path(n) \in DOMAIN codeowners
               /\ codeowners[relative_path(n)] = {}
    /\ Printed =>
           /\ \A n \in Unowned :
                  \E i \in 1..Len(TextLines) : TextLines[i] = key_string(relative_path(n))
           /\ codeowners[<<"/">>] = {} =>
                  \A i \in 1..Len(TextLines) :
                      /\ Tokens(TextLines[i])[1] # <<"*">>
                      /\ Tokens(TextLines[i])[1] # <<"/">>

\* Nobody owns the root, foo names no owner and sets inherit to false: the text
\* is the one line `/foo/`.
C13_Witness ==
    /\ Printed
    /\ DOMAIN owners_tree = { Root, <<"foo">> }
    /\ owners_tree[Root].owners_config.all_files.owners = {}
    /\ owners_tree[<<"foo">>].owners_config.all_files = [inherit |-> "false", owners |-> {}]
    /\ Unwrap(codeowners_text) = <<"/", "f", "o", "o", "/">>

\* C19: once an OWNERS file reached by the walk has failed to parse,
\* load_from_files has returned an error and no tree, and the run ends in that
\* error with nothing resolved, printed or written.
C19_NoPartialSuccess ==
    (\E d \in DOMAIN dir_info : dir_info[d].owners = "fail") =>
        /\ tstatus = "err"
        /\ tstack = <<>>
        /\ tchildren = EmptyMap
        /\ tconfig = EmptyMap
        /\ pstatus \in {"running", "err"}
        /\ poutput = "none"
        /\ codeowners_text = None
        /\ rstatus = "idle"

\* a/OWNERS was parsed and made a node, a/b/OWNERS then failed: the run has
\* ended in the error.
C19_Witness ==
    /\ pstatus = "err"
    /\ <<"a", "b">> \in DOMAIN dir_info
    /\ dir_info[<<"a">>].owners = "parsed"
    /\ dir_info[<<"a", "b">>].owners = "fail"
    /\ poutput = "none"

-----------------------------------------------------------------------------
(* Properties of the parser's accumulator and of its include chain *)

\* The patterns the header lines of f and of the files it includes name.
RECURSIVE Headers(_)
Headers(f) ==
    { Unwrap(maybe_get_file_pattern(text[f].lines[i])) :
        i \in { j \in 1..Len(text[f].lines) : IsHeader(text[f].lines[j]) } }
    \cup UNION { Headers(g) : g \in IncludeEdges(f) }

\* C21: after a successful parse every pattern a header line of the file or of
\* its includes names is a key of pattern_overrides, also when no owner line
\* and no set line follows the header.
C21_HeaderCreatesOverride ==
    status = "ok" => Headers(top) \subseteq DOMAIN config.pattern_overrides

IsSetInherit(line) ==
    line \in { <<"set", "inherit", "=", "true">>, <<"set", "inherit", "=", "false">> }

\* An earlier line of file f sets inherit in the scope line i stands in: no
\* header line lies between the two.
SetEarlierInScope(f, i) ==
    \E j \in 1..(i - 1) :
        /\ IsSetInherit(text[f].lines[j])
        /\ \A k \in j..(i - 1) : ~IsHeader(text[f].lines[k])

\* C22: a `set inherit` line in a scope where an earlier line has set inherit
\* already ends the parse with an error; the earlier value is not replaced.
C22_SecondSetInheritFails ==
    [][ (LineStep /\ IsSetInherit(StepLine) /\ SetEarlierInScope(TopFrame.path, TopFrame.i))
            => status' = "err" /\ config' = config ]_vars

IsSetLine(line) == line[1] = "set" /\ Len(line) >= 2

\* C23: `set inherit = true|false` sets the inherit flag of the set the line
\* acts on and changes nothing else, no owner and no other set; any other set
\* line ends the parse with an error and changes no set; maybe_process_set
\* leaves the set untouched on a line that is no set line, and such a line
\* changes no inherit flag and adds at most the owner it names.
C23_SetDirective ==
    [][ (LineStep /\ ~IsInclude(StepLine) /\ StepLine # <<"include">>) =>
          LET line == StepLine
              key == TopFrame.active_pattern_key
              cfg == with_current_set(config, key)
              set == current_set(cfg, key)
          IN  IF IsSetInherit(line)
              THEN config' = put_current_set(cfg, key, [set EXCEPT !.inherit = line[4]])
              ELSE IF IsSetLine(line)
              THEN /\ status' = "err"
                   /\ error' \in { "set_format", "set_variable", "set_value" }
                   /\ config' = cfg
              ELSE /\ maybe_process_set(set, line).set = set
                   /\ maybe_process_set(set, line).err = ""
                   /\ config' \in { cfg, put_current_set(cfg, key,
                                           [set EXCEPT !.owners = @ \cup {line[1]}]) }
                   /\ config'.all_files.inherit = cfg.all_files.inherit
                   /\ \A k \in DOMAIN cfg.pattern_overrides :
                          config'.pattern_overrides[k].inherit = cfg.pattern_overrides[k].inherit
      ]_vars

\* inherit was set to true in the blanket scope and to false after [p] a: each
\* flag stands in its own set and the owner of p is still there.
C23_Witness ==
    /\ status = "ok"
    /\ config.all_files = [inherit |-> "true", owners |-> {}]
    /\ DOMAIN config.pattern_overrides = {"p"}
    /\ config.pattern_overrides["p"] = [inherit |-> "false", owners |-> {"a"}]

\* The files of the active parse_text calls, the top-level file first.
ActiveChain == [k \in 1..Len(stack) |-> stack[k].path]

\* C24: the chain a cycle error reports is the chain of the files being
\* expanded, from the top-level file down to the file holding the include line
\* that closes the cycle.
C24_FullChainReported ==
    [][ (status = "running" /\ status' = "err" /\ error' = "cycle")
            => error_chain' = ActiveChain ]_vars

\* The chain holds the files of the active calls and no other, each under the
\* file of the call that included it.
ChainIsStack ==
    /\ DOMAIN seen_owners_files = { stack[k].path : k \in 1..Len(stack) }
    /\ Cardinality(DOMAIN seen_owners_files) = Len(stack)
    /\ \A k \in 1..Len(stack) :
          seen_owners_files[stack[k].path] =
              IF k = 1 THEN None ELSE Some(stack[k - 1].path)

\* C25: while the parse has not failed the chain is exactly the files being
\* walked, each mapped to its includer; a file whose expansion has returned is
\* out of the chain, and an include line naming it again (in the file that
\* included it before or in another branch) is expanded without a cycle error.
C25_ChainIsActiveFiles ==
    [][ /\ status = "running" => ChainIsStack
        /\ status' = "running" => ChainIsStack'
        /\ (/\ LineStep
             /\ IsInclude(StepLine)
             /\ ~IsSome(TopFrame.active_pattern_key)
             /\ IsSome(IncludeTarget(TopFrame.path, StepLine[2]))
             /\ text[Unwrap(IncludeTarget(TopFrame.path, StepLine[2]))].closed
             /\ Unwrap(IncludeTarget(TopFrame.path, StepLine[2])) \notin DOMAIN seen_owners_files)
            => /\ status' = "running"
               /\ stack' = Append(stack, Frame(Unwrap(IncludeTarget(TopFrame.path, StepLine[2]))))
      ]_vars

\* A diamond: r/d/OWNERS has included X, which returned, and now includes
\* ../OWNERS, whose include of /d/X is being expanded.
C25_Witness ==
    /\ status = "running"
    /\ Len(stack) = 3
    /\ stack[1].path = <<"r", "d", "OWNERS">>
    /\ stack[2].path = <<"r", "OWNERS">>
    /\ stack[3].path = <<"r", "d", "X">>
    /\ text[<<"r", "d", "X">>].closed
    /\ text[<<"r", "d", "OWNERS">>].lines[1] = <<"include", "X">>

-----------------------------------------------------------------------------
(* Properties of the tree builder's children lists *)

\* Byte order of the directory names.
name_rank(n) == CASE n = ".git" -> 0 [] n = "a" -> 1 [] n = "b" -> 2

\* Lexical path order, component by component.
RECURSIVE path_lt(_, _)
path_lt(p, q) ==
    IF q = <<>> THEN FALSE
    ELSE IF p = <<>> THEN TRUE
    ELSE IF Head(p) = Head(q) THEN path_lt(Tail(p), Tail(q))
    ELSE name_rank(Head(p)) < name_rank(Head(q))

\* C26: the children list of every node of a finished tree is in one order
\* fixed by the directory structure, lexical path order, whatever order the
\* directories were enumerated in.
C26_ChildrenOrderFixed ==
    tstatus = "ok" =>
        \A n \in DOMAIN tchildren :
            \A i, j \in 1..Len(tchildren[n]) :
                i < j => path_lt(tchildren[n][i], tchildren[n][j])

-----------------------------------------------------------------------------
(* Properties of the resolver's inheritance chain *)

\* The node at path and its ancestors in the tree, nearest first, the root last.
RECURSIVE PathChain(_)
PathChain(path) ==
    IF path = Root THEN <<Root>> ELSE <<path>> \o PathChain(NodeParent(path))

LocalBlanket(path) == owners_tree[path].owners_config.all_files.owners

\* The local owners of the node and of every ancestor that no disabled node
\* separates from it.
BlanketUnion(path) ==
    LET chain == PathChain(path)
    IN  UNION { LocalBlanket(chain[k]) :
                  k \in { i \in 1..Len(chain) :
                            \A m \in 1..(i - 1) :
                                Enabled(owners_tree[chain[m]].owners_config.all_files) } }

\* C27: the set under a node's key is the union of its local blanket owners and
\* those of exactly the ancestors A such that every node from A's child down to
\* the node inherits; an owner declared only above a node that does not inherit
\* is in the entry of neither that node nor any node below it.
C27_InheritanceCutoff ==
    rstatus = "done" =>
        \A path \in DOMAIN owners_tree :
            /\ codeowners[relative_path(path)] = BlanketUnion(path)
            /\ LET chain == PathChain(path) IN
               \A d \in 1..Len(chain) :
                   ~Enabled(owners_tree[chain[d]].owners_config.all_files) =>
                       \A o \in UNION { LocalBlanket(chain[k]) : k \in (d + 1)..Len(chain) } :
                           o \in codeowners[relative_path(path)] =>
                               \E m \in 1..d : o \in LocalBlanket(chain[m])

\* foo does not inherit, foo/bar does: the root's owner A stops at foo and
\* foo's owner B goes on to foo/bar.
C27_Witness ==
    /\ rstatus = "done"
    /\ implicit_inherit
    /\ DOMAIN owners_tree = {Root, <<"foo">>, <<"foo", "bar">>}
    /\ LocalBlanket(Root) = {"A"}
    /\ owners_tree[<<"foo">>].owners_config.all_files = [inherit |-> "false", owners |-> {"B"}]
    /\ owners_tree[<<"foo", "bar">>].owners_config.all_files = [inherit |-> "true", owners |-> {"C"}]
    /\ codeowners[<<"/", "foo", "bar">>] = {"B", "C"}
    /\ codeowners[<<"/", "foo">>] = {"B"}

\* C28: resolving the tree under the other global default gives a map with the
\* same keys, and under every key the set resolved with default true holds the
\* set resolved with default false.
C28_DefaultMonotone ==
    rstatus = "done" =>
        \A iter \in IterationOrders(owners_tree) :
            LET other == generate_codeowners(owners_tree, ~implicit_inherit, iter)
            IN  /\ DOMAIN other = DOMAIN codeowners
                /\ \A key \in DOMAIN codeowners :
                       IF implicit_inherit
                       THEN other[key] \subseteq codeowners[key]
                       ELSE codeowners[key] \subseteq other[key]

\* foo leaves its flag unset: under the default true it has the root's owner A
\* as well, under the default false only its own owner B.
C28_Witness ==
    /\ rstatus = "done"
    /\ implicit_inherit
    /\ DOMAIN owners_tree = {Root, <<"foo">>}
    /\ owners_tree[<<"foo">>].owners_config.all_files = [inherit |-> "unset", owners |-> {"B"}]
    /\ codeowners[<<"/", "foo">>] = {"A", "B"}
    /\ \E iter \in IterationOrders(owners_tree) :
           generate_codeowners(owners_tree, FALSE, iter)[<<"/", "foo">>] = {"B"}

\* from_file has returned: a configuration or an error, no parse_text call left.
Returned == status \in {"ok", "err"} /\ stack = <<>>

\* The files an include can name: those inside the repository base.
IncludableFiles == { f \in AllFiles : InsideBase(f) }

\* C29: the parse returns, with a configuration or with an error, and the depth
\* of the include recursion never exceeds the number of distinct files.
C29_Terminates ==
    /\ [][Len(stack') <= Cardinality(IncludableFiles)]_vars
    /\ <>Returned

\* A parse that nested three deep, r/d/OWNERS -> ../OWNERS -> /d/X, has returned.
C29_Witness ==
    /\ Returned
    /\ status = "ok"
    /\ top = <<"r", "d", "OWNERS">>
    /\ Len(text[<<"r", "OWNERS">>].lines) >= 1
    /\ text[<<"r", "OWNERS">>].lines[1] = <<"include", "/d/X">>
    /\ text[<<"r", "d", "X">>].closed

\* C30: on the error path too the chain is popped: once a failed parse_text
\* call of an included file has returned to its caller, the chain holds the
\* files of the calls still active and no other, as before the include.
C30_ChainRestoredOnError ==
    (status = "err" /\ stack # <<>>) =>
        DOMAIN seen_owners_files = { stack[k].path : k \in 1..Len(stack) }

====
